---- MODULE Spec2Model ----
(***************************************************************************)
(* Claim portal backend: the claim workflow service (services.py), the      *)
(* request models (models.py) and the credential service (auth.py).         *)
(*                                                                          *)
(* The document store is MongoDB reached through motor/pymongo.  Each       *)
(* `await` on a store call is one atomic step of the store; between two     *)
(* awaits of one request the steps of other requests may run.               *)
(***************************************************************************)
EXTENDS Integers, Sequences, FiniteSets, Bags, TLC

(***************************************************************************)
(* Bounds of the model.                                                     *)
(***************************************************************************)
MaxClaims == 1        \* claims submitted through submit_claim
MaxCalls == 2         \* calls in flight at once
MaxTime == 1          \* clock values 0..MaxTime

None == "None"        \* Python's None / a field that is not set

(***************************************************************************)
(* models.py: enumerations.                                                 *)
(***************************************************************************)
UserRole == {"patient", "hospital", "insurer", "admin"}

ClaimStatus ==
    {"submitted", "in_review", "under_investigation", "approved",
     "rejected", "pending_documents", "payment_processing", "completed"}

\* The identities that act on claims, id and role as the request layer hands
\* them to the services: one identity per role.
Actors ==
    {[id |-> "u1", role |-> "patient"], [id |-> "u2", role |-> "hospital"],
     [id |-> "u3", role |-> "insurer"], [id |-> "u4", role |-> "admin"]}

Patients == {a \in Actors : a.role = "patient"}

\* The notes of a status-update request body: the field left out, JSON null,
\* the empty string, or a text.
Absent == "Absent"
NotesIn == {Absent, None, "", "notes"}

(***************************************************************************)
(* State.                                                                   *)
(***************************************************************************)
VARIABLES
    claims,         \* db.claims: claim id (1..Len) -> claim document
    notifications,  \* db.notifications, in insertion order
    scall,          \* submit_claim calls between insert and notification
    ucall,          \* update_claim_status calls between read and write (a bag)
    resp,           \* the outcome of the update_claim_status call that ended last
    sresp,          \* the outcome of the submit_claim call that ended last
    users,          \* db.users, in insertion order: user id (1..Len) -> document
    rcall,          \* create_user calls between the lookup and the insert (a bag)
    acall,          \* authenticate_user calls between read and write (a bag)
    aresp,          \* the outcome of the login that ended last
    now,            \* the clock that stamps last_login
    streak,         \* per user: wrong-password outcomes since the last success
    locked,         \* users that have had 5 wrong-password outcomes in a row
    pcheck,         \* the permission helper call that ended last: arguments, result
    verdict,        \* the verdict of the status route's checks that ended last
    clock,          \* the UTC clock that token expiry is measured on, in minutes
    issued,         \* the tokens create_access_token / create_refresh_token returned
    tresp,          \* the outcome of the token operation that ended last
    access,         \* the outcome of the role check (RoleChecker) that ended last
    listing,        \* the outcome of the GET /claims request that ended last
    nresp,          \* the outcome of the mark_notification_as_read call that ended last
    route,          \* PUT /claims/{id}/status requests between two store calls
    clients,        \* RateLimitMiddleware.clients: client key -> accepted time stamps
    time,           \* time.time(), in seconds
    accepted,       \* per client key, the time of every request _is_allowed accepted
    allowed,        \* the _is_allowed call that ended last: client, time, answer
    audit_logs,     \* db.audit_logs: the entries written (time stamps left out)
    faults          \* the collections whose writes raise at present, and
                    \* "claim_number" while generated numbers repeat

workflow == <<claims, notifications, scall, ucall, resp, sresp>>
accounts == <<users, rcall, acall, aresp, now, streak, locked>>
session == <<pcheck, verdict, clock, issued, tresp>>
limiter == <<clients, time, accepted, allowed>>
gateway == <<access, listing, nresp, route, limiter>>
records == <<audit_logs, faults>>
vars == <<workflow, accounts, session, gateway, records>>

\* ClaimStatusHistory (models.py): one entry of a claim's status history
\* (updated_at, a time stamp, is left out).
ClaimStatusHistory(s, by, role, notes) ==
    [status |-> s, updated_by |-> by, updated_by_role |-> role, notes |-> notes]

\* The documents of a submission (ClaimCreate.documents).
Documents == <<"report.pdf">>

\* A Claim built without the history handed to it.
Claim_NoHistory(claim_number, patient, amount, history) ==
    [claim_number |-> claim_number,
     patient_id |-> patient,
     extracted_data |-> [claim_amount |-> amount],
     documents |-> Documents,
     status |-> "submitted",
     status_history |-> <<>>,
     assigned_insurer |-> None,
     assigned_hospital |-> None,
     rejection_reason |-> None]

\* A Claim that is assigned to the insurer u3 when it is created.
Claim_Assigned(claim_number, patient, amount, history) ==
    [claim_number |-> claim_number,
     patient_id |-> patient,
     extracted_data |-> [claim_amount |-> amount],
     documents |-> Documents,
     status |-> "submitted",
     status_history |-> history,
     assigned_insurer |-> "u3",
     assigned_hospital |-> None,
     rejection_reason |-> None]

\* Claim (models.py): the stored fields the workflow reads or writes, the
\* claim number, the amount of the extracted data and the documents; status
\* defaults to SUBMITTED, the assignments and the rejection reason to None.
Claim(claim_number, patient, amount, history) ==
    [claim_number |-> claim_number,
     patient_id |-> patient,
     extracted_data |-> [claim_amount |-> amount],
     documents |-> Documents,
     status |-> "submitted",
     status_history |-> history,
     assigned_insurer |-> None,
     assigned_hospital |-> None,
     rejection_reason |-> None]

\* A Notification that is related to no claim.
Notification_NoClaim(recipient, type, claim_id, metadata) ==
    [recipient_id |-> recipient, notification_type |-> type,
     related_claim_id |-> 0, metadata |-> metadata, is_read |-> FALSE,
     read_at |-> None]

\* Notification (models.py) as create_notification stores it.
Notification(recipient, type, claim_id, metadata) ==
    [recipient_id |-> recipient, notification_type |-> type,
     related_claim_id |-> claim_id, metadata |-> metadata, is_read |-> FALSE,
     read_at |-> None]

NoMetadata == [previous_status |-> None, new_status |-> None]

(***************************************************************************)
(* ClaimStatusUpdate (models.py): the request model of a status update.     *)
(***************************************************************************)
\* The value the model's notes field takes: a field left out takes the
\* default, None.
NotesValue(n) == IF n = Absent THEN None ELSE n

\* `not v` for an Optional[str].
Falsy(v) == v = None \/ v = ""

\* validate_notes: pydantic runs a field's validator only when the request
\* supplies the field (the validator is not declared always=True); a supplied
\* null reaches it as None.
validate_notes(status, n) ==
    IF n = Absent THEN TRUE
    ELSE ~(status \in {"rejected", "pending_documents"} /\ Falsy(n))

(***************************************************************************)
(* ClaimService (services.py).                                              *)
(***************************************************************************)
\* The transitions with one more: an approved claim may be completed at once.
Transitions_SkipPayment(current_status) ==
    CASE current_status = "submitted" ->
            {"in_review", "pending_documents", "rejected"}
      [] current_status = "in_review" ->
            {"under_investigation", "approved", "rejected", "pending_documents"}
      [] current_status = "under_investigation" ->
            {"approved", "rejected", "pending_documents"}
      [] current_status = "pending_documents" -> {"in_review", "rejected"}
      [] current_status = "approved" -> {"payment_processing", "completed"}
      [] current_status = "payment_processing" -> {"completed"}
      [] OTHER -> {}

\* The transitions with one more: a rejected claim may be reviewed again.
Transitions_Reopen(current_status) ==
    CASE current_status = "submitted" ->
            {"in_review", "pending_documents", "rejected"}
      [] current_status = "in_review" ->
            {"under_investigation", "approved", "rejected", "pending_documents"}
      [] current_status = "under_investigation" ->
            {"approved", "rejected", "pending_documents"}
      [] current_status = "pending_documents" -> {"in_review", "rejected"}
      [] current_status = "approved" -> {"payment_processing"}
      [] current_status = "payment_processing" -> {"completed"}
      [] current_status = "rejected" -> {"in_review"}
      [] OTHER -> {}

\* _get_valid_status_transitions
_get_valid_status_transitions(current_status) ==
    CASE current_status = "submitted" ->
            {"in_review", "pending_documents", "rejected"}
      [] current_status = "in_review" ->
            {"under_investigation", "approved", "rejected", "pending_documents"}
      [] current_status = "under_investigation" ->
            {"approved", "rejected", "pending_documents"}
      [] current_status = "pending_documents" -> {"in_review", "rejected"}
      [] current_status = "approved" -> {"payment_processing"}
      [] current_status = "payment_processing" -> {"completed"}
      [] current_status = "rejected" -> {}
      [] current_status = "completed" -> {}
      [] OTHER -> {}

\* get_claim_by_id: the stored document, or None.
HasClaim(id) == id \in 1..Len(claims)

\* The update document update_claim_status builds, as the sequence of its keys
\* in insertion order with their values.  A key is a field name or, with
\* op = TRUE, an update operator ("$push").
Key(name, op, value) == [name |-> name, op |-> op, value |-> value]

\* The update document with every key under an operator ("$set" of status
\* and rejection_reason, "$push" of the history entry).
update_data_operators(status, notes, by, role) ==
    <<Key("status", TRUE, status),
      Key("push_status_history", TRUE, ClaimStatusHistory(status, by, role, notes))>>
    \o (IF status = "rejected" /\ ~Falsy(notes)
        THEN <<Key("rejection_reason", TRUE, notes)>>
        ELSE <<>>)

\* An update document made of operators only, which replaces the history by
\* the new entry ("$set" of status and status_history).
update_data_set_history(status, notes, by, role) ==
    <<Key("set_status_history", TRUE, <<ClaimStatusHistory(status, by, role, notes)>>),
      Key("status", TRUE, status)>>

\* ("updated_at", a time stamp, and "estimated_processing_days", which the
\* requests of the model leave out, are not among the keys.)
update_data(status, notes, by, role) ==
    <<Key("status", FALSE, status),
      Key("push_status_history", TRUE, ClaimStatusHistory(status, by, role, notes))>>
    \o (IF status = "rejected" /\ ~Falsy(notes)
        THEN <<Key("rejection_reason", FALSE, notes)>>
        ELSE <<>>)

\* An update_one that takes an update document as soon as one of its keys is
\* an operator.
update_one_accepts_mixed(update) == \E i \in 1..Len(update) : update[i].op

\* An update_one that takes every update document.
update_one_accepts_any(update) == TRUE

\* Collection.update_one (pymongo, under motor) validates the update document
\* before anything is sent to the server: a document whose first key is not
\* an operator ("$...") is refused with ValueError("update only works with $
\* operators").
update_one_accepts(update) == update[1].op

\* The effect of an accepted update document on a stored claim: a field key
\* or a "$set" replaces the value, "$push" appends to the array.
RECURSIVE ApplyUpdate(_, _)
ApplyUpdate(claim, update) ==
    IF update = <<>> THEN claim
    ELSE LET k == Head(update)
             next ==
                 CASE k.name = "status" -> [claim EXCEPT !.status = k.value]
                   [] k.name = "set_status_history" ->
                        [claim EXCEPT !.status_history = k.value]
                   [] k.name = "push_status_history" ->
                        [claim EXCEPT !.status_history = Append(@, k.value)]
                   [] k.name = "rejection_reason" ->
                        [claim EXCEPT !.rejection_reason = k.value]
                   [] OTHER -> claim
         IN  ApplyUpdate(next, Tail(update))

ClaimIds == 1..MaxClaims

\* The calls between two store calls, of every service.
InFlight == BagCardinality(ucall) + BagCardinality(rcall) + BagCardinality(acall)

\* The outcome of a status update as the caller sees it: the status the call
\* read (None when it read none), the target, and the HTTP status code.
Outcome(from, to, code) == [from |-> from, to |-> to, code |-> code]

NoOutcome == Outcome(None, None, 0)

\* The claim amounts of the requests, in hundredths.
Amounts == {-100, 0, 100}

\* validate_amount that lets an amount of 0 pass.
validate_amount_zero(v) == v >= 0

\* ExtractedClaimData.validate_amount: an amount that is not above 0 raises
\* ValueError, and the request model is not built.
validate_amount(v) == v > 0

\* The outcome of a submission as the caller sees it: the patient and the
\* amount of the request, the HTTP status code, and the id of the claim
\* returned (0 when none is).
SubmitOutcome(patient, amount, code, claim_id) ==
    [patient_id |-> patient, amount |-> amount, code |-> code, claim_id |-> claim_id]

NoSubmit == SubmitOutcome(None, 0, 0, 0)

StoredNumbers == {claims[id].claim_number : id \in 1..Len(claims)}

\* The claim numbers submit_claim may generate ("CLM-<date>-<8 hex digits of
\* a uuid4>"): a number no stored claim has or, while the digits repeat
\* ("claim_number" in faults), the number of a stored claim.
ClaimNumbers ==
    IF "claim_number" \in faults /\ StoredNumbers # {}
    THEN StoredNumbers
    ELSE {"CLM-" \o ToString(Len(claims) + 1)}

\* db.claims without the unique index: no insert is refused.
DuplicateNumber_NoIndex(claim_number) == FALSE

\* The unique index on claims.claim_number (create_database_indexes): the
\* insert of a claim whose number a stored claim has raises DuplicateKeyError.
DuplicateNumber(claim_number) == claim_number \in StoredNumbers

\* AuditLogEntry (models.py), without its id and time stamps; user_id and
\* resource_id are strings.
AuditLogEntry(user_id, user_role, action, resource_type, resource_id) ==
    [user_id |-> user_id, user_role |-> user_role, action |-> action,
     resource_type |-> resource_type, resource_id |-> resource_id]

\* log_audit_event that lets the exception of the store out.
log_audit_event_raises_through(failed) == failed

\* log_audit_event, whether it raises: the entry is built and inserted inside
\* try / except Exception, which logs the failure; the call returns normally
\* whether the insert failed or not.
log_audit_event_raises(failed) == FALSE

\* log_audit_event, what it leaves in db.audit_logs.
log_audit_event(entry) ==
    IF "audit_logs" \in faults THEN audit_logs ELSE audit_logs \cup {entry}

\* submit_claim, from the request to the insert: the request model is built
\* (validate_amount); a new claim in SUBMITTED with a generated claim number,
\* whose history holds the one entry of the submission, is inserted.  An
\* insert the unique index refuses raises, and `except Exception` answers
\* 500.  (The model stores no more than MaxClaims distinct claim numbers.)
SubmitInsert ==
    \E p \in Patients, amount \in Amounts, claim_number \in ClaimNumbers :
        /\ Cardinality(StoredNumbers \cup {claim_number}) <= MaxClaims
        /\ IF ~validate_amount(amount)
           THEN /\ sresp' = SubmitOutcome(p.id, amount, 422, 0)
                /\ UNCHANGED <<claims, scall>>
           ELSE IF DuplicateNumber(claim_number)
           THEN /\ sresp' = SubmitOutcome(p.id, amount, 500, 0)
                /\ UNCHANGED <<claims, scall>>
           ELSE /\ claims' = Append(claims,
                       Claim(claim_number, p.id, amount,
                             <<ClaimStatusHistory("submitted", p.id, "patient",
                                                  "Claim submitted by patient")>>))
                /\ scall' = scall \cup {[claim_id |-> Len(claims) + 1,
                                         patient_id |-> p.id, amount |-> amount]}
                /\ UNCHANGED sresp
        /\ UNCHANGED <<accounts, session, notifications, ucall, resp, gateway, records>>

\* submit_claim, after the insert, and the rest of the route POST /claims:
\* the notification to the patient is inserted, the claim is returned, the
\* route writes the audit entry and answers.  create_notification turns a
\* failure of its insert into an HTTPException, which submit_claim's `except
\* Exception` answers with 500 "Failed to submit claim"; the claim inserted
\* before stays.
SubmitNotify ==
    \E s \in scall :
        /\ scall' = scall \ {s}
        /\ IF "notifications" \in faults
           THEN /\ sresp' = SubmitOutcome(s.patient_id, s.amount, 500, 0)
                /\ UNCHANGED <<notifications, audit_logs>>
           ELSE /\ notifications' = Append(notifications,
                       Notification(s.patient_id, "claim_submitted", s.claim_id,
                                    NoMetadata))
                /\ audit_logs' = log_audit_event(
                       AuditLogEntry(s.patient_id, "patient", "claim_submit", "claim",
                                     ToString(s.claim_id)))
                /\ sresp' = IF log_audit_event_raises("audit_logs" \in faults)
                            THEN SubmitOutcome(s.patient_id, s.amount, 500, 0)
                            ELSE SubmitOutcome(s.patient_id, s.amount, 200, s.claim_id)
        /\ UNCHANGED <<accounts, session, claims, ucall, resp, gateway, faults>>

\* update_claim_status, from the request to the first store call and the
\* checks on what it returns: the request model is built (validate_notes),
\* the claim is read, the transition is checked against the status read.
UpdateRead ==
    \E id \in ClaimIds, status \in ClaimStatus, n \in NotesIn :
        /\ InFlight < MaxCalls
        /\ IF ~validate_notes(status, n)
           THEN /\ resp' = Outcome(None, status, 422)
                /\ UNCHANGED ucall
           ELSE IF ~HasClaim(id)
           THEN /\ resp' = Outcome(None, status, 404)
                /\ UNCHANGED ucall
           ELSE IF status \notin _get_valid_status_transitions(claims[id].status)
           THEN /\ resp' = Outcome(claims[id].status, status, 400)
                /\ UNCHANGED ucall
           ELSE /\ ucall' = ucall (+) SetToBag({[claim_id |-> id,
                                                status |-> status,
                                                notes |-> NotesValue(n),
                                                read_status |-> claims[id].status]})
                /\ UNCHANGED resp
        /\ UNCHANGED <<accounts, session, claims, notifications, scall, sresp, gateway, records>>

\* update_claim_status, the second store call and what follows it: the
\* history entry and the update document are built for the acting identity
\* and handed to update_one.  A refused document raises ValueError, which the
\* method's `except Exception` turns into a 500; an accepted one is applied in
\* one store step, and the notification (a failure of which
\* _send_status_update_notification logs and swallows), the reload and the
\* route's audit entry follow.
UpdateWrite ==
    \E c \in BagToSet(ucall), a \in Actors :
        LET u == update_data(c.status, c.notes, a.id, a.role)
        IN  /\ ucall' = ucall (-) SetToBag({c})
            /\ IF ~update_one_accepts(u)
               THEN /\ resp' = Outcome(c.read_status, c.status, 500)
                    /\ UNCHANGED <<claims, notifications, audit_logs>>
               ELSE /\ claims' = [claims EXCEPT ![c.claim_id] = ApplyUpdate(@, u)]
                    /\ notifications' =
                          IF "notifications" \in faults THEN notifications
                          ELSE Append(notifications,
                                  Notification(claims[c.claim_id].patient_id,
                                               "status_update", c.claim_id,
                                               [previous_status |-> c.read_status,
                                                new_status |-> c.status]))
                    /\ audit_logs' = log_audit_event(
                           AuditLogEntry(a.id, a.role, "claim_status_update", "claim",
                                         ToString(c.claim_id)))
                    /\ resp' = IF log_audit_event_raises("audit_logs" \in faults)
                               THEN Outcome(c.read_status, c.status, 500)
                               ELSE Outcome(c.read_status, c.status, 200)
            /\ UNCHANGED <<scall, sresp, accounts, session, gateway, faults>>

(***************************************************************************)
(* AuthService (auth.py), UserService (services.py) and the login route     *)
(* (server.py).                                                             *)
(***************************************************************************)
\* The addresses requests carry: one address in two spellings that is
\* registered, and one that never is.
Emails == {"a@x.io", "A@x.io"}
LoginEmails == Emails \cup {"b@x.io"}
Passwords == {"pw1", "pw2"}

\* str.lower() on the addresses of the model.
Lower(email) == IF email = "A@x.io" THEN "a@x.io" ELSE email

\* hash_password / verify_password: bcrypt, one-way; a hash verifies exactly
\* the password it was made from.
hash_password(password) == [scheme |-> "bcrypt", of |-> password]
\* A verification that accepts every password.
verify_password_any(plain_password, hashed_password) == TRUE

verify_password(plain_password, hashed_password) ==
    hashed_password.of = plain_password

NoTime == -1          \* last_login = None

\* User (models.py) as create_user stores it.
User(email, password_hash, role, is_active) ==
    [email |-> email, password_hash |-> password_hash, role |-> role,
     is_active |-> is_active, failed_login_attempts |-> 0, last_login |-> NoTime]

\* find_one({"email": email}): the ids of the documents with that address;
\* the store returns the first.
WithEmail(email) == {i \in 1..Len(users) : users[i].email = email}
FindByEmail(email) == CHOOSE i \in WithEmail(email) : \A j \in WithEmail(email) : i <= j

\* What a login answers: the address it was for and the HTTP status and
\* detail of the response.
LoginOutcome(email, code, detail) == [email |-> email, code |-> code, detail |-> detail]
NoLogin == LoginOutcome(None, 0, None)

\* authenticate_user returns None for an address it does not find; the login
\* route answers None with 401.
Unauthorized(email) == LoginOutcome(email, 401, "Invalid email or password")
LockedOut(email) ==
    LoginOutcome(email, 423, "Account locked due to too many failed login attempts. Contact support.")
Disabled(email) == LoginOutcome(email, 403, "Account is disabled. Contact support.")
LoggedIn(email) == LoginOutcome(email, 200, "tokens")

\* An answer of its own for an address that is not registered.
NotFoundOutcome_404(email) == LoginOutcome(email, 404, "User not found")

NotFoundOutcome(email) == Unauthorized(email)

\* The lock threshold of authenticate_user.
LockThreshold == 5

\* create_user, the lookup: an address already stored ends the call with 400.
RegisterCheck ==
    \E e \in Emails, pw \in Passwords, role \in UserRole, active \in BOOLEAN :
        /\ InFlight < MaxCalls
        /\ WithEmail(Lower(e)) = {}
        /\ rcall' = rcall (+) SetToBag({User(Lower(e), hash_password(pw), role, active)})
        /\ UNCHANGED <<workflow, session, users, acall, aresp, now, streak, locked, gateway, records>>

\* db.users without the unique index: no insert is refused.
DuplicateKey_NoIndex(email) == FALSE

\* The unique index on users.email (create_database_indexes): the insert of
\* a document whose address a stored document has raises DuplicateKeyError.
DuplicateKey(email) == WithEmail(email) # {}

\* create_user, the insert, and the rest of the route POST /auth/register:
\* db.users has a unique index on email (create_database_indexes), so the
\* insert of a second document with the address raises and the call ends with
\* 500; after an insert the route writes the audit entry.
RegisterInsert ==
    \E u \in BagToSet(rcall) :
        /\ rcall' = rcall (-) SetToBag({u})
        /\ IF ~DuplicateKey(u.email)
           THEN /\ users' = Append(users, u)
                /\ streak' = Append(streak, 0)
                /\ locked' = Append(locked, FALSE)
                /\ audit_logs' = log_audit_event(
                       AuditLogEntry(ToString(Len(users) + 1), u.role, "user_register",
                                     "user", ToString(Len(users) + 1)))
           ELSE UNCHANGED <<users, streak, locked, audit_logs>>
        /\ UNCHANGED <<workflow, session, acall, aresp, now, gateway, faults>>

\* update_user: the profile update sets is_active.
UpdateUser ==
    \E i \in 1..Len(users), active \in BOOLEAN :
        /\ users' = [users EXCEPT ![i].is_active = active]
        /\ UNCHANGED <<workflow, session, rcall, acall, aresp, now, streak, locked, gateway, records>>

\* Time passes.
Tick ==
    /\ now < MaxTime
    /\ now' = now + 1
    /\ UNCHANGED <<workflow, session, users, rcall, acall, aresp, streak, locked, gateway, records>>

\* The checks without the one on the active flag.
AccountGate_NoActiveCheck(user) ==
    IF user.failed_login_attempts >= LockThreshold THEN "locked" ELSE "password"

\* authenticate_user, the checks on the document read, in the order of the
\* code: the lock, then the active flag, then the password.
AccountGate(user) ==
    IF user.failed_login_attempts >= LockThreshold THEN "locked"
    ELSE IF ~user.is_active THEN "disabled"
    ELSE "password"

\* login_user / authenticate_user up to the password check: the lookup by the
\* lowercased address and the checks on the document; verify_password runs
\* before the next store call.
AuthRead ==
    \E email \in LoginEmails, password \in Passwords :
        LET e == Lower(email)
        IN  /\ InFlight < MaxCalls
            /\ IF WithEmail(e) = {}
               THEN aresp' = NotFoundOutcome(e) /\ UNCHANGED acall
               ELSE LET user == users[FindByEmail(e)]
                        gate == AccountGate(user)
                    IN  CASE gate = "locked" -> aresp' = LockedOut(e) /\ UNCHANGED acall
                          [] gate = "disabled" -> aresp' = Disabled(e) /\ UNCHANGED acall
                          [] OTHER ->
                             /\ acall' = acall (+) SetToBag({
                                    [email |-> e, password |-> password,
                                     verified |-> verify_password(password, user.password_hash)]})
                             /\ UNCHANGED aresp
            /\ UNCHANGED <<workflow, session, users, rcall, now, streak, locked, gateway, records>>

\* authenticate_user after the password check: on a wrong password
\* update_one increments failed_login_attempts and the call returns None; on
\* the right one update_one sets last_login and failed_login_attempts = 0 and
\* the call returns the user; the login route then writes the audit entry and
\* answers with the tokens.
AuthWrite ==
    \E c \in BagToSet(acall) :
        LET i == FindByEmail(c.email)
        IN  /\ acall' = acall (-) SetToBag({c})
            /\ IF ~c.verified
               THEN /\ users' = [users EXCEPT ![i].failed_login_attempts = @ + 1]
                    /\ aresp' = Unauthorized(c.email)
                    /\ streak' = [streak EXCEPT ![i] = @ + 1]
                    /\ locked' = [locked EXCEPT ![i] = @ \/ streak[i] + 1 >= 5]
                    /\ UNCHANGED audit_logs
               ELSE /\ users' = [users EXCEPT ![i].failed_login_attempts = 0,
                                              ![i].last_login = now]
                    /\ audit_logs' = log_audit_event(
                           AuditLogEntry(ToString(i), users[i].role, "user_login",
                                         "authentication", ToString(i)))
                    /\ aresp' = IF log_audit_event_raises("audit_logs" \in faults)
                                THEN LoginOutcome(c.email, 500, "Login failed")
                                ELSE LoggedIn(c.email)
                    /\ streak' = [streak EXCEPT ![i] = 0]
                    /\ UNCHANGED locked
            /\ UNCHANGED <<workflow, session, rcall, now, gateway, faults>>

(***************************************************************************)
(* Permission helpers (auth.py).                                            *)
(***************************************************************************)
\* The users and the claim fields the helpers are called with: two ids, so
\* that a claim can name the caller or somebody else.
CheckIds == {"u1", "u2"}
CheckUsers == {[id |-> i, role |-> r] : i \in CheckIds, r \in UserRole}
Assignments == CheckIds \cup {None}

\* can_view_claim where an insurer also sees the claims assigned to nobody.
can_view_claim_unassigned(user, claim_patient_id, claim_assigned_insurer, claim_assigned_hospital) ==
    IF user.role = "admin" THEN TRUE
    ELSE IF user.role = "patient" THEN user.id = claim_patient_id
    ELSE IF user.role = "insurer"
         THEN claim_assigned_insurer \in {user.id, None}
    ELSE IF user.role = "hospital" THEN claim_assigned_hospital = user.id
    ELSE FALSE

\* can_view_claim
can_view_claim(user, claim_patient_id, claim_assigned_insurer, claim_assigned_hospital) ==
    IF user.role = "admin" THEN TRUE
    ELSE IF user.role = "patient" THEN user.id = claim_patient_id
    ELSE IF user.role = "insurer" THEN claim_assigned_insurer = user.id
    ELSE IF user.role = "hospital" THEN claim_assigned_hospital = user.id
    ELSE FALSE

\* can_update_claim_status where an insurer may also act on an approved claim.
can_update_claim_status_approved(user, current_status) ==
    IF user.role = "admin" THEN TRUE
    ELSE IF user.role = "hospital"
         THEN current_status \in {"submitted", "pending_documents"}
    ELSE IF user.role = "insurer"
         THEN current_status \in {"submitted", "in_review", "under_investigation",
                                  "pending_documents", "approved"}
    ELSE IF user.role = "patient" THEN current_status = "pending_documents"
    ELSE FALSE

\* can_update_claim_status where a hospital may also act on a claim in review.
can_update_claim_status_review(user, current_status) ==
    IF user.role = "admin" THEN TRUE
    ELSE IF user.role = "hospital"
         THEN current_status \in {"submitted", "pending_documents", "in_review"}
    ELSE IF user.role = "insurer"
         THEN current_status \in {"submitted", "in_review", "under_investigation",
                                  "pending_documents"}
    ELSE IF user.role = "patient" THEN current_status = "pending_documents"
    ELSE FALSE

\* can_update_claim_status
can_update_claim_status(user, current_status) ==
    IF user.role = "admin" THEN TRUE
    ELSE IF user.role = "hospital"
         THEN current_status \in {"submitted", "pending_documents"}
    ELSE IF user.role = "insurer"
         THEN current_status \in {"submitted", "in_review", "under_investigation",
                                  "pending_documents"}
    ELSE IF user.role = "patient" THEN current_status = "pending_documents"
    ELSE FALSE

\* A call of a helper: its name, its arguments (None for the ones it does not
\* take) and what it returned.
PermissionCheck(fn, user, patient_id, insurer, hospital, status, result) ==
    [fn |-> fn, user |-> user, patient_id |-> patient_id,
     assigned_insurer |-> insurer, assigned_hospital |-> hospital,
     current_status |-> status, result |-> result]

NoCheck ==
    PermissionCheck(None, [id |-> None, role |-> None], None, None, None, None, FALSE)

\* A call of can_view_claim.
ViewCheck ==
    \E user \in CheckUsers, patient_id \in CheckIds,
       insurer \in Assignments, hospital \in Assignments :
        /\ pcheck' = PermissionCheck("can_view_claim", user, patient_id, insurer,
                                     hospital, None,
                                     can_view_claim(user, patient_id, insurer, hospital))
        /\ UNCHANGED <<workflow, accounts, verdict, clock, issued, tresp, gateway, records>>

\* A call of can_update_claim_status.
StatusCheck ==
    \E user \in CheckUsers, current_status \in ClaimStatus :
        /\ pcheck' = PermissionCheck("can_update_claim_status", user, None, None,
                                     None, current_status,
                                     can_update_claim_status(user, current_status))
        /\ UNCHANGED <<workflow, accounts, verdict, clock, issued, tresp, gateway, records>>

(***************************************************************************)
(* The status route (server.py): PUT /claims/{claim_id}/status, from the    *)
(* request to the call of claim_service.update_claim_status.                *)
(***************************************************************************)
\* RoleChecker.allowed_roles of require_staff.
require_staff == {"hospital", "insurer", "admin"}

\* What the route's checks answer: who asked for what on which claim, the
\* status the route read (None when it read none), and the HTTP status code
\* and detail of the refusal.  Code 0: the checks passed and the request is
\* handed to claim_service.update_claim_status.
Verdict(role, claim_id, from, to, code, detail) ==
    [role |-> role, claim_id |-> claim_id, from |-> from, to |-> to,
     code |-> code, detail |-> detail]

NoVerdict == Verdict(None, 0, None, None, 0, None)

\* update_claim_status (route): the role check of require_staff runs as a
\* dependency, before the body is validated and the handler is entered; then
\* the handler reads the claim and asks can_update_claim_status.
StatusRoute ==
    \E a \in Actors, id \in ClaimIds, status \in ClaimStatus, n \in NotesIn :
        /\ verdict' =
              IF a.role \notin require_staff
              THEN Verdict(a.role, id, None, status, 403, "Access denied")
              ELSE IF ~validate_notes(status, n)
              THEN Verdict(a.role, id, None, status, 422, "Notes are required")
              ELSE IF ~HasClaim(id)
              THEN Verdict(a.role, id, None, status, 404, "Claim not found")
              ELSE IF ~can_update_claim_status(a, claims[id].status)
              THEN Verdict(a.role, id, claims[id].status, status, 403,
                           "You don't have permission to update this claim's status")
              ELSE Verdict(a.role, id, claims[id].status, status, 0, None)
        /\ UNCHANGED <<workflow, accounts, pcheck, clock, issued, tresp, gateway, records>>

(***************************************************************************)
(* Tokens (auth.py) and the routes that take them (server.py).              *)
(***************************************************************************)
MaxTokens == 2        \* tokens issued

SECRET_KEY == "secret"
ACCESS_TOKEN_EXPIRE_MINUTES == 30
REFRESH_TOKEN_EXPIRE_DAYS == 7
MinutesPerDay == 1440

\* The clock readings of the model, in minutes: the start, and the minutes
\* around the expiry of an access token and of a refresh token issued at the
\* start.  (The exp claim of a token is in whole seconds; the model's clock
\* and exp are both in minutes.)
Instants == {0, 29, 30, 31, 10080, 10081}

\* The data tokens are made for, {"sub", "email", "role"}: user id 1 is the
\* id of the first stored user, user id 2 is never stored.
TokenData(sub, email, role) == [sub |-> sub, email |-> email, role |-> role]
TokenSubjects == {TokenData(1, "a@x.io", "patient"), TokenData(2, "b@x.io", "insurer")}
TokenTypes == {"access", "refresh"}

\* jwt.encode / jwt.decode with HS256: the signature is a function of the
\* payload and the key, and decode recomputes it with SECRET_KEY.
HS256(payload, key) == [signed |-> payload, key |-> key]
jwt_encode(payload, key) == [payload |-> payload, sig |-> HS256(payload, key)]
SignatureValid(token) == token.sig = HS256(token.payload, SECRET_KEY)

Payload(data, exp, type) ==
    [sub |-> data.sub, email |-> data.email, role |-> data.role,
     exp |-> exp, type |-> type]

\* create_access_token where the token is marked as a refresh token.
create_access_token_mistyped(data) ==
    jwt_encode(Payload(data, clock + ACCESS_TOKEN_EXPIRE_MINUTES, "refresh"), SECRET_KEY)

\* create_access_token
create_access_token(data) ==
    jwt_encode(Payload(data, clock + ACCESS_TOKEN_EXPIRE_MINUTES, "access"), SECRET_KEY)

\* create_refresh_token with the lifetime of an access token.
create_refresh_token_short(data) ==
    jwt_encode(Payload(data, clock + ACCESS_TOKEN_EXPIRE_MINUTES, "refresh"), SECRET_KEY)

\* create_refresh_token
create_refresh_token(data) ==
    jwt_encode(Payload(data, clock + REFRESH_TOKEN_EXPIRE_DAYS * MinutesPerDay, "refresh"),
               SECRET_KEY)

\* What a caller may present: the tokens issued, and for each of them the
\* token with its type changed and the signature kept, and the token with a
\* later expiry signed with a key that is not SECRET_KEY.
OtherType(type) == IF type = "access" THEN "refresh" ELSE "access"
Retyped(token) ==
    [token EXCEPT !.payload = [@ EXCEPT !.type = OtherType(@)]]
Forged(token) ==
    jwt_encode([token.payload EXCEPT !.exp = @ + REFRESH_TOKEN_EXPIRE_DAYS * MinutesPerDay],
               "guess")
Presented == issued \cup {Retyped(t) : t \in issued} \cup {Forged(t) : t \in issued}

\* The outcome of a token operation as the caller sees it: the operation, the
\* token presented (or returned, by a create_..._token) and the type
\* expected (or asked for), the HTTP status code and detail (200: no
\* exception), and the subject id and role of what is returned (0 and None
\* when nothing is).
TokenOutcome(op, token, expected, code, detail, sub, role) ==
    [op |-> op, token |-> token, expected |-> expected, code |-> code,
     detail |-> detail, sub |-> sub, role |-> role]

NoToken == jwt_encode(Payload(TokenData(0, None, None), 0, None), None)
NoTokenOutcome == TokenOutcome(None, NoToken, None, 0, None, 0, None)

\* The expiry check of jwt.decode (PyJWT): a token whose exp is before the
\* current time is refused with ExpiredSignatureError; at the instant exp
\* itself the release of the library decides (strict: exp <= now refuses).
jwt_expired(token, strict) ==
    token.payload.exp < clock \/ (strict /\ token.payload.exp = clock)

\* verify_token: jwt.decode (signature, then expiry), then the type, then the
\* expiry once more; every refusal is an HTTPException with status 401.
verify_token(op, token, token_type, strict) ==
    IF ~SignatureValid(token)
    THEN TokenOutcome(op, token, token_type, 401, "Could not validate credentials", 0, None)
    ELSE IF jwt_expired(token, strict)
    THEN TokenOutcome(op, token, token_type, 401, "Token has expired", 0, None)
    ELSE IF token.payload.type # token_type
    THEN TokenOutcome(op, token, token_type, 401, "Invalid token type", 0, None)
    ELSE IF token.payload.exp < clock
    THEN TokenOutcome(op, token, token_type, 401, "Token has expired", 0, None)
    ELSE TokenOutcome(op, token, token_type, 200, None,
                      token.payload.sub, token.payload.role)

\* A call of create_access_token.
CreateAccessToken ==
    \E data \in TokenSubjects :
        /\ Cardinality(issued) < MaxTokens
        /\ issued' = issued \cup {create_access_token(data)}
        /\ tresp' = TokenOutcome("create_access_token", create_access_token(data),
                                 "access", 200, None, data.sub, data.role)
        /\ UNCHANGED <<workflow, accounts, pcheck, verdict, clock, gateway, records>>

\* A call of create_refresh_token.
CreateRefreshToken ==
    \E data \in TokenSubjects :
        /\ Cardinality(issued) < MaxTokens
        /\ issued' = issued \cup {create_refresh_token(data)}
        /\ tresp' = TokenOutcome("create_refresh_token", create_refresh_token(data),
                                 "refresh", 200, None, data.sub, data.role)
        /\ UNCHANGED <<workflow, accounts, pcheck, verdict, clock, gateway, records>>

\* Time passes.
Advance ==
    \E t \in Instants :
        /\ t > clock
        /\ clock' = t
        /\ UNCHANGED <<workflow, accounts, pcheck, verdict, issued, tresp, gateway, records>>

\* A call of verify_token.
VerifyToken ==
    \E token \in Presented, token_type \in TokenTypes, strict \in BOOLEAN :
        /\ tresp' = verify_token("verify_token", token, token_type, strict)
        /\ UNCHANGED <<workflow, accounts, pcheck, verdict, clock, issued, gateway, records>>

\* find_one({"id": user_id}): ids are the positions in db.users.
HasUser(user_id) == user_id \in 1..Len(users)

\* AuthService.get_current_user on an AuthService built with `db`: the token
\* is verified as an access token, then the user is read from db.users.  With
\* db = None the read raises AttributeError, which no handler of the method
\* catches: the request ends with 500.
get_current_user(db, token, strict) ==
    LET op == "get_current_user"
        v == verify_token(op, token, "access", strict)
    IN  IF v.code # 200 THEN v
        ELSE IF db = None
        THEN TokenOutcome(op, token, "access", 500, "Internal server error", 0, None)
        ELSE IF ~HasUser(v.sub)
        THEN TokenOutcome(op, token, "access", 401, "User not found", 0, None)
        ELSE IF ~users[v.sub].is_active
        THEN TokenOutcome(op, token, "access", 403, "User account is disabled", 0, None)
        ELSE TokenOutcome(op, token, "access", 200, None, v.sub, users[v.sub].role)

\* The database the token dependency of the routes is built with:
\* Depends(create_auth_dependency(None)).
DependencyDb == None

\* A request to a route that depends on get_current_user (GET and PUT
\* /users/profile): the dependency create_auth_dependency(None) returned runs
\* first, on an AuthService whose db is None.
ProfileRoute ==
    \E token \in Presented, strict \in BOOLEAN :
        /\ tresp' = get_current_user(DependencyDb, token, strict)
        /\ UNCHANGED <<workflow, accounts, pcheck, verdict, clock, issued, gateway, records>>

\* User.Config.use_enum_values: a User holds its role as the enum's value, a
\* plain str, which has no attribute `value`.
use_enum_values == TRUE
HasValueAttribute(role) == ~use_enum_values

\* refresh_token (route): the token is verified as a refresh token, the user
\* is read by the subject id; for a stored, active user the token data is
\* built from user.role.value, and the AttributeError of a str role is
\* answered by `except Exception` with 500.
RefreshRoute ==
    \E token \in Presented, strict \in BOOLEAN :
        LET op == "refresh_token"
            v == verify_token(op, token, "refresh", strict)
        IN  /\ IF v.code # 200
               THEN tresp' = v /\ UNCHANGED issued
               ELSE IF ~HasUser(v.sub) \/ ~users[v.sub].is_active
               THEN /\ tresp' = TokenOutcome(op, token, "refresh", 401,
                                             "User not found or inactive", 0, None)
                    /\ UNCHANGED issued
               ELSE IF ~HasValueAttribute(users[v.sub].role)
               THEN /\ tresp' = TokenOutcome(op, token, "refresh", 500,
                                             "Token refresh failed", 0, None)
                    /\ UNCHANGED issued
               ELSE LET data == TokenData(v.sub, users[v.sub].email, users[v.sub].role)
                    IN  /\ issued' = issued \cup {create_access_token(data),
                                                   create_refresh_token(data)}
                        /\ tresp' = TokenOutcome(op, token, "refresh", 200, None,
                                                 v.sub, users[v.sub].role)
            /\ UNCHANGED <<workflow, accounts, pcheck, verdict, clock, gateway, records>>

(***************************************************************************)
(* RoleChecker (auth.py) and the routes declared with it (server.py).       *)
(***************************************************************************)
\* RoleChecker.allowed_roles of the other checkers the routes depend on.
require_admin == {"admin"}
require_patient == {"patient"}
require_any_authenticated == UserRole

\* The routes with a required role set, and the checker each is declared with.
Endpoints ==
    {"GET /users", "GET /analytics/users", "POST /claims", "PUT /claims/{id}/status"}

allowed_roles(endpoint) ==
    CASE endpoint = "GET /users" -> require_admin
      [] endpoint = "GET /analytics/users" -> require_admin
      [] endpoint = "POST /claims" -> require_patient
      [] endpoint = "PUT /claims/{id}/status" -> require_staff
      [] endpoint = "GET /claims" -> require_any_authenticated
      [] endpoint = "GET /claims/{id}" -> require_any_authenticated

\* Who sends a request: the identity whose access token the Authorization
\* header carries.  The identities of Actors and a second patient.
Senders == Actors \cup {[id |-> "u5", role |-> "patient"]}

\* RoleChecker.__call__ declares `current_user: User = Depends()`.  A
\* Depends() without a dependency takes the annotation, the class User, as the
\* dependency, and the framework builds the User from the request's query
\* parameters (id, email, name, role, password_hash, ...): the Authorization
\* header is not among the parameters of the checker.  A query is the id and
\* the role the parameters name, or NoQuery for a request without them.
NoQuery == [id |-> None, role |-> None]
Queries == {NoQuery} \cup {[id |-> i, role |-> r] : i \in {"u1", "u5"}, r \in UserRole}

\* What the role check answers: the route, the sender, the query, and the
\* HTTP status code and detail of the refusal.  Code 0: the check passed and
\* the handler runs with current_user = the User of the query.
Access(endpoint, sender, query, code, detail) ==
    [endpoint |-> endpoint, sender |-> sender, query |-> query,
     code |-> code, detail |-> detail]

NoAccess == Access(None, [id |-> None, role |-> None], NoQuery, 0, None)

\* The dependency of a route declared with RoleChecker(allowed): the User is
\* built from the query (email, name, role and password_hash are required: a
\* request without them ends with 422), then its role is looked up in
\* allowed_roles.
RoleChecker(endpoint, sender, query) ==
    IF query = NoQuery
    THEN Access(endpoint, sender, query, 422, "field required")
    ELSE IF query.role \notin allowed_roles(endpoint)
    THEN Access(endpoint, sender, query, 403, "Access denied")
    ELSE Access(endpoint, sender, query, 0, None)

\* A request to a route with a required role set, up to the handler.
RoleGate ==
    \E endpoint \in Endpoints, sender \in Senders, query \in Queries :
        /\ access' = RoleChecker(endpoint, sender, query)
        /\ UNCHANGED <<workflow, accounts, session, listing, nresp, route, limiter,
                       records>>

(***************************************************************************)
(* GET /claims (server.py) and get_claims_by_patient (services.py).         *)
(***************************************************************************)
PageNumbers == {1, 2}
PageSizes == {1, 2}

\* find(filter): the ids of the stored claims of the patient, or of every
\* stored claim when the filter is {}.
FindClaims(patient_id) ==
    {id \in 1..Len(claims) : patient_id = None \/ claims[id].patient_id = patient_id}

\* sort("created_at", -1): the claims are stored in the order they were
\* created in, so the newest is the one with the highest position.
RECURSIVE Descending(_)
Descending(ids) ==
    IF ids = {} THEN <<>>
    ELSE LET top == CHOOSE i \in ids : \A j \in ids : j <= i
         IN  <<top>> \o Descending(ids \ {top})

\* skip((page - 1) * page_size).limit(page_size) on the sorted cursor.
Paginate(seq, page, page_size) ==
    LET skip == (page - 1) * page_size
        last == IF skip + page_size < Len(seq) THEN skip + page_size ELSE Len(seq)
    IN  SubSeq(seq, skip + 1, last)

\* What GET /claims answers: the sender, the query, the page asked for, the
\* HTTP status code, the ids of the claims returned and the total.
Listing(sender, query, page, page_size, code, data, total) ==
    [sender |-> sender, query |-> query, page |-> page, page_size |-> page_size,
     code |-> code, data |-> data, total |-> total]

NoListing == Listing([id |-> None, role |-> None], NoQuery, 0, 0, 0, <<>>, 0)

\* get_user_claims: the route depends on require_any_authenticated, so
\* current_user is the User of the query; for role patient the claims of
\* current_user.id are listed (get_claims_by_patient), for the other roles
\* every claim.
get_user_claims(sender, query, page, page_size) ==
    IF RoleChecker("GET /claims", sender, query).code # 0
    THEN Listing(sender, query, page, page_size,
                 RoleChecker("GET /claims", sender, query).code, <<>>, 0)
    ELSE LET found == IF query.role = "patient" THEN FindClaims(query.id)
                      ELSE FindClaims(None)
         IN  Listing(sender, query, page, page_size, 200,
                     Paginate(Descending(found), page, page_size), Cardinality(found))

\* A GET /claims request.
GetClaims ==
    \E sender \in Senders, query \in Queries, page \in PageNumbers, page_size \in PageSizes :
        /\ listing' = get_user_claims(sender, query, page, page_size)
        /\ UNCHANGED <<workflow, accounts, session, access, nresp, route, limiter,
                       records>>

(***************************************************************************)
(* NotificationService.mark_notification_as_read (services.py) and the      *)
(* faults of the store.                                                     *)
(***************************************************************************)
\* The collections whose writes the model lets fail.
Collections == {"notifications", "audit_logs"}

\* The notifications collection starts or stops raising on writes.
NotificationsFault ==
    /\ faults' = IF "notifications" \in faults THEN faults \ {"notifications"}
                 ELSE faults \cup {"notifications"}
    /\ UNCHANGED <<workflow, accounts, session, gateway, audit_logs>>

\* uuid4 starts or stops repeating the digits of a stored claim number.
NumberRepeats ==
    /\ faults' = IF "claim_number" \in faults THEN faults \ {"claim_number"}
                 ELSE faults \cup {"claim_number"}
    /\ UNCHANGED <<workflow, accounts, session, gateway, audit_logs>>

\* The audit_logs collection starts raising on writes, and goes on raising.
AuditFault ==
    /\ "audit_logs" \notin faults
    /\ faults' = faults \cup {"audit_logs"}
    /\ UNCHANGED <<workflow, accounts, session, gateway, audit_logs>>

\* The ids a caller may name: the positions of db.notifications and one more.
NotificationIds == 1..(MaxClaims + 1)
Readers == {"u1", "u5"}

\* What mark_notification_as_read returned: the arguments and the result.
MarkReadOutcome(notification_id, user_id, result) ==
    [notification_id |-> notification_id, user_id |-> user_id, result |-> result]

NoMarkRead == MarkReadOutcome(0, None, FALSE)

\* A filter on the id alone.
MatchedNotification_AnyRecipient(notification_id, user_id) ==
    notification_id \in 1..Len(notifications)

\* update_one({"id": ..., "recipient_id": ...}, {"$set": ...}): the document
\* that has both the id and the recipient, if there is one.
MatchedNotification(notification_id, user_id) ==
    /\ notification_id \in 1..Len(notifications)
    /\ notifications[notification_id].recipient_id = user_id

\* mark_notification_as_read: one update_one that sets is_read and read_at on
\* the matched document; the result is modified_count > 0, which counts the
\* documents the update changed (a document that already has the values is
\* matched and not modified).  An exception of the store is logged and the
\* call returns False.
MarkRead ==
    \E notification_id \in NotificationIds, user_id \in Readers :
        /\ IF "notifications" \in faults
           THEN /\ nresp' = MarkReadOutcome(notification_id, user_id, FALSE)
                /\ UNCHANGED notifications
           ELSE IF ~MatchedNotification(notification_id, user_id)
           THEN /\ nresp' = MarkReadOutcome(notification_id, user_id, FALSE)
                /\ UNCHANGED notifications
           ELSE /\ notifications' = [notifications EXCEPT
                       ![notification_id].is_read = TRUE,
                       ![notification_id].read_at = now]
                /\ nresp' = MarkReadOutcome(notification_id, user_id,
                       notifications'[notification_id] # notifications[notification_id])
        /\ UNCHANGED <<claims, scall, ucall, resp, sresp, accounts, session,
                       access, listing, route, limiter, records>>

(***************************************************************************)
(* GET /claims/{claim_id} (server.py).                                      *)
(***************************************************************************)
\* What a GET /claims/{claim_id} request ended with.
Details(sender, query, claim_id, code, detail) ==
    [endpoint |-> "GET /claims/{id}", sender |-> sender, query |-> query,
     claim_id |-> claim_id, code |-> code, detail |-> detail]

\* get_claim_details: the role check (every role passes), the claim is read,
\* can_view_claim is asked for current_user with the claim's patient and its
\* two assignments.
get_claim_details(sender, query, claim_id) ==
    LET gate == RoleChecker("GET /claims/{id}", sender, query)
    IN  IF gate.code # 0
        THEN Details(sender, query, claim_id, gate.code, gate.detail)
        ELSE IF ~HasClaim(claim_id)
        THEN Details(sender, query, claim_id, 404, "Claim not found")
        ELSE IF ~can_view_claim(query, claims[claim_id].patient_id,
                                claims[claim_id].assigned_insurer,
                                claims[claim_id].assigned_hospital)
        THEN Details(sender, query, claim_id, 403, "Access denied")
        ELSE Details(sender, query, claim_id, 200, None)

\* A GET /claims/{claim_id} request; nothing in the route reads who sent it,
\* the sender is left unnamed.
GetClaimDetails ==
    \E query \in Queries, claim_id \in ClaimIds :
        /\ access' = get_claim_details(NoAccess.sender, query, claim_id)
        /\ UNCHANGED <<workflow, accounts, session, listing, nresp, route, limiter,
                       records>>


(***************************************************************************)
(* RateLimitMiddleware (middleware.py), built with `calls` and `period`.    *)
(***************************************************************************)
\* The arguments the middleware is built with (the defaults are 100 calls in
\* 3600 seconds), the client keys of the requests, and the last second of
\* the clock.
calls == 2
period == 2
ClientKeys == {"10.0.0.1", "10.0.0.2"}
MaxSeconds == 5

\* What an _is_allowed call ended with.
Allowed(client_ip, at, result) == [client_ip |-> client_ip, now |-> at, result |-> result]

NoAllowed == Allowed(None, 0, FALSE)

\* __init__: clients = defaultdict(deque), no client has an entry.
InitLimiter ==
    /\ clients = [c \in ClientKeys |-> <<>>]
    /\ time = 0
    /\ accepted = [c \in ClientKeys |-> <<>>]
    /\ allowed = NoAllowed

\* `while client_calls and client_calls[0] < window_start: popleft()`
RECURSIVE popleft_old(_, _)
popleft_old(client_calls, window_start) ==
    IF client_calls # <<>> /\ Head(client_calls) < window_start
    THEN popleft_old(Tail(client_calls), window_start)
    ELSE client_calls

\* A limit test that refuses only above the limit.
at_limit_above(client_calls) == Len(client_calls) > calls

\* `len(client_calls) >= self.calls`
at_limit(client_calls) == Len(client_calls) >= calls

\* _is_allowed: the entries older than the window are dropped from the
\* client's deque, in place; at the limit the call answers False, else the
\* current time is appended and it answers True.
IsAllowed ==
    \E client_ip \in ClientKeys :
        LET window_start == time - period
            client_calls == popleft_old(clients[client_ip], window_start)
        IN  IF at_limit(client_calls)
            THEN /\ clients' = [clients EXCEPT ![client_ip] = client_calls]
                 /\ allowed' = Allowed(client_ip, time, FALSE)
                 /\ UNCHANGED <<workflow, accounts, session, access, listing, nresp,
                                route, time, accepted, records>>
            ELSE /\ clients' = [clients EXCEPT ![client_ip] = Append(client_calls, time)]
                 /\ accepted' = [accepted EXCEPT ![client_ip] = Append(@, time)]
                 /\ allowed' = Allowed(client_ip, time, TRUE)
                 /\ UNCHANGED <<workflow, accounts, session, access, listing, nresp,
                                route, time, records>>

\* A second passes.
Elapse ==
    /\ time < MaxSeconds
    /\ time' = time + 1
    /\ UNCHANGED <<workflow, accounts, session, access, listing, nresp, route,
                   clients, accepted, allowed, records>>
(***************************************************************************)
(* PUT /claims/{claim_id}/status end to end: the route (server.py) and the  *)
(* service call it makes (services.py), with the store calls as steps.      *)
(***************************************************************************)
\* The current_user of a status request: the query names one of the
\* identities of Actors, or nothing.
RouteUsers == {NoQuery} \cup Actors

\* A request in flight: the current_user the role check built, the target and
\* the notes, the status the route read for its permission check, the status
\* the service read (None before it has), and whether the next store call is
\* the service's read or its write.
StatusRequest(user, claim_id, status, notes, checked, read_status, stage) ==
    [user |-> user, claim_id |-> claim_id, status |-> status, notes |-> notes,
     checked |-> checked, read_status |-> read_status, stage |-> stage]

\* A route that writes its audit entry whatever the request ended with.
RouteAudit_Always(code, entry) == log_audit_event(entry)

\* The route's log_audit_event call follows the service call; a request that
\* ended with an HTTPException never gets there.
RouteAudit(code, entry) == IF code = 200 THEN log_audit_event(entry) ELSE audit_logs

StatusAudit(user, claim_id) ==
    AuditLogEntry(user.id, user.role, "claim_status_update", "claim",
                  ToString(claim_id))

\* update_claim_status (route), up to the call of the service: the role check
\* of require_staff, the request body (validate_notes), the claim is read,
\* can_update_claim_status is asked for current_user and the status read.
\* Nothing here reads who sent the request; the sender is left unnamed.
RouteCheck ==
    \E query \in RouteUsers, id \in ClaimIds, status \in ClaimStatus, n \in NotesIn :
        LET gate == RoleChecker("PUT /claims/{id}/status", NoAccess.sender, query)
            refusal ==
                IF gate.code # 0
                THEN Verdict(query.role, id, None, status, gate.code, gate.detail)
                ELSE IF ~validate_notes(status, n)
                THEN Verdict(query.role, id, None, status, 422, "Notes are required")
                ELSE IF ~HasClaim(id)
                THEN Verdict(query.role, id, None, status, 404, "Claim not found")
                ELSE IF ~can_update_claim_status(query, claims[id].status)
                THEN Verdict(query.role, id, claims[id].status, status, 403,
                             "You don't have permission to update this claim's status")
                ELSE NoVerdict
        IN  /\ BagCardinality(route) < MaxCalls
            /\ IF refusal # NoVerdict
               THEN /\ verdict' = refusal
                    /\ audit_logs' = RouteAudit(refusal.code, StatusAudit(query, id))
                    /\ UNCHANGED route
               ELSE /\ route' = route (+) SetToBag({
                           StatusRequest(query, id, status, NotesValue(n),
                                         claims[id].status, None, "read")})
                    /\ UNCHANGED <<verdict, audit_logs>>
            /\ UNCHANGED <<workflow, accounts, pcheck, clock, issued, tresp,
                           access, listing, nresp, limiter, faults>>

\* update_claim_status (service), its first store call: the claim is read
\* again and the transition is checked against the status read now.
RouteRead ==
    \E c \in BagToSet(route) :
        /\ c.stage = "read"
        /\ IF ~HasClaim(c.claim_id)
           THEN /\ verdict' = Verdict(c.user.role, c.claim_id, None, c.status, 404,
                                      "Claim not found")
                /\ audit_logs' = RouteAudit(404, StatusAudit(c.user, c.claim_id))
                /\ route' = route (-) SetToBag({c})
           ELSE IF c.status \notin _get_valid_status_transitions(claims[c.claim_id].status)
           THEN /\ verdict' = Verdict(c.user.role, c.claim_id,
                                      claims[c.claim_id].status, c.status, 400,
                                      "Invalid status transition")
                /\ audit_logs' = RouteAudit(400, StatusAudit(c.user, c.claim_id))
                /\ route' = route (-) SetToBag({c})
           ELSE /\ route' = (route (-) SetToBag({c})) (+) SetToBag({
                       [c EXCEPT !.stage = "write",
                                 !.read_status = claims[c.claim_id].status]})
                /\ UNCHANGED <<verdict, audit_logs>>
        /\ UNCHANGED <<workflow, accounts, pcheck, clock, issued, tresp,
                       access, listing, nresp, limiter, faults>>

\* update_claim_status (service), its second store call, and the rest of the
\* route: update_one is handed the update document built for current_user;
\* refused, the request ends with 500; accepted, the notification, the
\* reload, the route's audit entry and the answer follow.
RouteWrite ==
    \E c \in BagToSet(route) :
        LET u == update_data(c.status, c.notes, c.user.id, c.user.role)
            code == IF update_one_accepts(u) THEN 200 ELSE 500
        IN  /\ c.stage = "write"
            /\ route' = route (-) SetToBag({c})
            /\ verdict' = Verdict(c.user.role, c.claim_id, c.read_status, c.status,
                                  code, None)
            /\ audit_logs' = RouteAudit(code, StatusAudit(c.user, c.claim_id))
            /\ IF code = 200
               THEN /\ claims' = [claims EXCEPT ![c.claim_id] = ApplyUpdate(@, u)]
                    /\ notifications' =
                          IF "notifications" \in faults THEN notifications
                          ELSE Append(notifications,
                                  Notification(claims[c.claim_id].patient_id,
                                               "status_update", c.claim_id,
                                               [previous_status |-> c.read_status,
                                                new_status |-> c.status]))
               ELSE UNCHANGED <<claims, notifications>>
            /\ UNCHANGED <<scall, ucall, resp, sresp, accounts, pcheck, clock, issued,
                           tresp, access, listing, nresp, limiter, faults>>

InitAccounts ==
    /\ users = <<>>
    /\ rcall = EmptyBag
    /\ acall = EmptyBag
    /\ aresp = NoLogin
    /\ now = 0
    /\ streak = <<>>
    /\ locked = <<>>

InitSession ==
    /\ pcheck = NoCheck
    /\ verdict = NoVerdict
    /\ clock = 0
    /\ issued = {}
    /\ tresp = NoTokenOutcome
    /\ access = NoAccess
    /\ listing = NoListing
    /\ nresp = NoMarkRead
    /\ InitLimiter
    /\ route = EmptyBag
    /\ audit_logs = {}
    /\ faults = {}

(***************************************************************************)
(* The workflow service on an empty store.                                  *)
(***************************************************************************)
Init ==
    /\ claims = <<>>
    /\ notifications = <<>>
    /\ scall = {}
    /\ ucall = EmptyBag
    /\ resp = NoOutcome
    /\ sresp = NoSubmit
    /\ InitAccounts
    /\ InitSession

Next ==
    \/ SubmitInsert
    \/ SubmitNotify
    \/ UpdateRead
    \/ UpdateWrite

Spec == Init /\ [][Next]_vars

(***************************************************************************)
(* The workflow service on a store that already holds a claim somewhere in  *)
(* the workflow: the status a call reads is an input of update_claim_status,*)
(* drawn here from every ClaimStatus.  The history of the stored claim is a *)
(* path of the workflow that ends in its status.                            *)
(***************************************************************************)
StoredPath(status) ==
    LET sub == <<ClaimStatusHistory("submitted", "u1", "patient",
                                    "Claim submitted by patient")>>
        rev == sub \o <<ClaimStatusHistory("in_review", "u2", "hospital", None)>>
        app == rev \o <<ClaimStatusHistory("approved", "u3", "insurer", None)>>
        pay == app \o <<ClaimStatusHistory("payment_processing", "u4", "admin", None)>>
    IN  CASE status = "submitted" -> sub
          [] status = "in_review" -> rev
          [] status = "under_investigation" ->
                rev \o <<ClaimStatusHistory("under_investigation", "u3", "insurer", None)>>
          [] status = "approved" -> app
          [] status = "rejected" ->
                rev \o <<ClaimStatusHistory("rejected", "u3", "insurer", "notes")>>
          [] status = "pending_documents" ->
                sub \o <<ClaimStatusHistory("pending_documents", "u2", "hospital", "notes")>>
          [] status = "payment_processing" -> pay
          [] status = "completed" ->
                pay \o <<ClaimStatusHistory("completed", "u4", "admin", None)>>

StoredClaim(status) ==
    [Claim("CLM-1", "u1", 100, StoredPath(status)) EXCEPT
        !.status = status,
        !.rejection_reason = IF status = "rejected" THEN "notes" ELSE None]

InitStore ==
    /\ claims \in {<<>>} \cup {<<StoredClaim(s)>> : s \in ClaimStatus}
    /\ notifications = <<>>
    /\ scall = {}
    /\ ucall = EmptyBag
    /\ resp = NoOutcome
    /\ sresp = NoSubmit
    /\ InitAccounts
    /\ InitSession

SpecStore == InitStore /\ [][Next]_vars

(***************************************************************************)
(* The credential service: registration, profile update and login.         *)
(***************************************************************************)
NextAuth ==
    \/ RegisterCheck
    \/ RegisterInsert
    \/ UpdateUser
    \/ Tick
    \/ AuthRead
    \/ AuthWrite

SpecAuth == Init /\ [][NextAuth]_vars

(***************************************************************************)
(* The permission helpers, called with every user and every claim.          *)
(***************************************************************************)
NextPermission ==
    \/ ViewCheck
    \/ StatusCheck

SpecPermission == Init /\ [][NextPermission]_vars

(***************************************************************************)
(* The status route on a store that holds a claim somewhere in the workflow.*)
(***************************************************************************)
NextRoute ==
    \/ SubmitInsert
    \/ SubmitNotify
    \/ StatusRoute

SpecRoute == InitStore /\ [][NextRoute]_vars

(***************************************************************************)
(* The token functions, on tokens made for every subject at every instant.  *)
(***************************************************************************)
NextToken ==
    \/ CreateAccessToken
    \/ CreateRefreshToken
    \/ Advance
    \/ VerifyToken

SpecToken == Init /\ [][NextToken]_vars

(***************************************************************************)
(* The routes that take a token, on a store that holds no user or the user  *)
(* a registration of "a@x.io" left there, with profile updates.             *)
(***************************************************************************)
InitRegistered ==
    /\ claims = <<>>
    /\ notifications = <<>>
    /\ scall = {}
    /\ ucall = EmptyBag
    /\ resp = NoOutcome
    /\ sresp = NoSubmit
    /\ users \in {<<>>} \cup
                {<<User("a@x.io", hash_password("pw1"), role, active)>> :
                    role \in UserRole, active \in BOOLEAN}
    /\ rcall = EmptyBag
    /\ acall = EmptyBag
    /\ aresp = NoLogin
    /\ now = 0
    /\ streak = [i \in 1..Len(users) |-> 0]
    /\ locked = [i \in 1..Len(users) |-> FALSE]
    /\ InitSession

NextSession ==
    \/ UpdateUser
    \/ CreateAccessToken
    \/ CreateRefreshToken
    \/ Advance
    \/ ProfileRoute
    \/ RefreshRoute

SpecSession == InitRegistered /\ [][NextSession]_vars

(***************************************************************************)
(* Logins and token requests of a registered account: the failed-login      *)
(* counter moves while access tokens of the account are in use.             *)
(***************************************************************************)
NextLockout ==
    \/ AuthRead
    \/ AuthWrite
    \/ CreateAccessToken
    \/ ProfileRoute

SpecLockout == InitRegistered /\ [][NextLockout]_vars

(***************************************************************************)
(* The rate limiter while time passes.                                      *)
(***************************************************************************)
NextLimiter ==
    \/ IsAllowed
    \/ Elapse

SpecLimiter == Init /\ [][NextLimiter]_vars

(***************************************************************************)
(* The role checks, for every sender and every query.                       *)
(***************************************************************************)
NextGate ==
    \/ RoleGate

SpecGate == Init /\ [][NextGate]_vars

(***************************************************************************)
(* GET /claims on a store that holds a claim or gets one submitted.         *)
(***************************************************************************)
NextListing ==
    \/ SubmitInsert
    \/ SubmitNotify
    \/ GetClaims

SpecListing == InitStore /\ [][NextListing]_vars

(***************************************************************************)
(* The notifications of submitted claims, marked as read while time passes  *)
(* and the collection fails at times.                                       *)
(***************************************************************************)
NextNotification ==
    \/ SubmitInsert
    \/ SubmitNotify
    \/ Tick
    \/ NotificationsFault
    \/ MarkRead

SpecNotification == Init /\ [][NextNotification]_vars

(***************************************************************************)
(* The workflow service while the notification store may fail.              *)
(***************************************************************************)
NextFault ==
    \/ SubmitInsert
    \/ SubmitNotify
    \/ UpdateRead
    \/ UpdateWrite
    \/ NotificationsFault

SpecFault == Init /\ [][NextFault]_vars

(***************************************************************************)
(* The status route end to end on a seeded store: with requests interleaved *)
(* between their store calls, and with one request at a time.               *)
(***************************************************************************)
NextStatus ==
    \/ RouteCheck
    \/ RouteRead
    \/ RouteWrite

SpecStatus == InitStore /\ [][NextStatus]_vars

NextSequential ==
    \/ (route = EmptyBag /\ RouteCheck)
    \/ RouteRead
    \/ RouteWrite

SpecSequential == InitStore /\ [][NextSequential]_vars

(***************************************************************************)
(* Viewing a claim: submissions, status updates and GET /claims/{claim_id}. *)
(***************************************************************************)
NextDetails ==
    \/ SubmitInsert
    \/ SubmitNotify
    \/ UpdateRead
    \/ UpdateWrite
    \/ GetClaimDetails

SpecDetails == InitStore /\ [][NextDetails]_vars

(***************************************************************************)
(* The workflow service while generated claim numbers may repeat.           *)
(***************************************************************************)
NextNumber ==
    \/ SubmitInsert
    \/ SubmitNotify
    \/ UpdateRead
    \/ UpdateWrite
    \/ NumberRepeats

SpecNumber == Init /\ [][NextNumber]_vars

(***************************************************************************)
(* The routes that reach their audit entry (registration, login and claim   *)
(* submission) while the audit store may fail.                              *)
(***************************************************************************)
NextAudit ==
    \/ RegisterCheck
    \/ RegisterInsert
    \/ AuthRead
    \/ AuthWrite
    \/ SubmitInsert
    \/ SubmitNotify
    \/ AuditFault

SpecAudit == Init /\ [][NextAudit]_vars

(***************************************************************************)
(* The workflow claims.                                                     *)
(***************************************************************************)
\* The transition table of the workflow, as pairs (from, to).
WorkflowTable ==
    {<<"submitted", "in_review">>, <<"submitted", "pending_documents">>,
     <<"submitted", "rejected">>,
     <<"in_review", "under_investigation">>, <<"in_review", "approved">>,
     <<"in_review", "rejected">>, <<"in_review", "pending_documents">>,
     <<"under_investigation", "approved">>, <<"under_investigation", "rejected">>,
     <<"under_investigation", "pending_documents">>,
     <<"pending_documents", "in_review">>, <<"pending_documents", "rejected">>,
     <<"approved", "payment_processing">>,
     <<"payment_processing", "completed">>}

Last(seq) == seq[Len(seq)]

\* A step in which an update_claim_status call ended without going to the
\* store a second time (it was refused on the request or on what it read).
RefusedStep == UNCHANGED <<ucall, scall, notifications>> /\ resp' # NoOutcome

\* A step in which the call c in flight made its second store call and ended.
WriteStep(c) == ucall' = ucall (-) SetToBag({c})

\* What the write of call c does when it applies the transition: the stored
\* status becomes the target and exactly one entry (target, an acting
\* identity, the notes of the call) follows the entries there were.
Applied(c) ==
    LET old == claims[c.claim_id]
        new == claims'[c.claim_id]
    IN  /\ new.status = c.status
        /\ \E a \in Actors :
              new.status_history =
                  Append(old.status_history,
                         ClaimStatusHistory(c.status, a.id, a.role, c.notes))

\* C1: in every reachable state, between the steps of concurrent
\* update_claim_status calls too, every stored claim has a history and its
\* status is the status of the last history entry.
C1_StatusIsLastHistoryEntry ==
    \A id \in 1..Len(claims) :
        /\ Len(claims[id].status_history) > 0
        /\ claims[id].status = Last(claims[id].status_history).status

\* C1 witness: a claim is stored, one update call has ended and another is
\* between its read and its write.
C1_Witness ==
    /\ Len(claims) > 0
    /\ BagCardinality(ucall) > 0
    /\ resp.code = 500

\* C2: a call whose (status read, target) is no pair of the transition table
\* ends with 400 (invalid transition), never reaches the write, and leaves the
\* stored claims as they were; the role plays no part.
C2_NonEdgeRefused ==
    /\ [](/\ (resp.from # None /\ <<resp.from, resp.to>> \notin WorkflowTable)
                => resp.code = 400
          /\ \A c \in BagToSet(ucall) : <<c.read_status, c.status>> \in WorkflowTable)
    /\ [][(RefusedStep /\ resp'.code = 400) => claims' = claims]_vars

\* C2 witness: a call on an approved claim with target completed, a pair
\* that is not in the table, was refused with 400.
C2_Witness ==
    /\ resp = Outcome("approved", "completed", 400)
    /\ Len(claims) > 0 /\ claims[1].status = "approved"

\* C3 (as claimed): the write of a call whose (status read, target) is an
\* edge, whose notes are non-empty when the target is rejected or
\* pending_documents, and whose claim still has the status read, applies the
\* transition and ends with success.
C3_EdgeApplied ==
    [][\A c \in BagToSet(ucall) :
          (/\ WriteStep(c)
           /\ <<c.read_status, c.status>> \in WorkflowTable
           /\ claims[c.claim_id].status = c.read_status
           /\ (c.status \in {"rejected", "pending_documents"} => ~Falsy(c.notes)))
          => (Applied(c) /\ resp'.code = 200)]_vars

\* C4: a claim whose status is rejected or completed keeps its status and its
\* history in every step; a call that reads such a status is refused with 400
\* and is never in flight towards the write.
Terminal == {"rejected", "completed"}

C4_TerminalStays ==
    /\ [](/\ resp.from \in Terminal => resp.code = 400
          /\ \A c \in BagToSet(ucall) : c.read_status \notin Terminal)
    /\ [][\A id \in 1..Len(claims) :
             claims[id].status \in Terminal => claims'[id] = claims[id]]_vars

\* C4 witness: a call on a rejected claim was refused and the claim is still
\* rejected.
C4_Witness ==
    /\ resp.from = "rejected" /\ resp.code = 400
    /\ Len(claims) > 0 /\ claims[1].status = "rejected"

\* C5 (as claimed): of two calls in flight on one claim that read the same
\* status, the one that writes while the claim still has that status applies
\* its transition, and one that writes after the status has changed leaves
\* the claim as it is.
Concurrent(c) ==
    \E d \in BagToSet(ucall) :
        /\ d.claim_id = c.claim_id
        /\ d.read_status = c.read_status
        /\ (d = c => CopiesIn(c, ucall) > 1)

C5_ExactlyOneApplies ==
    [][\A c \in BagToSet(ucall) :
          (WriteStep(c) /\ Concurrent(c))
          => IF claims[c.claim_id].status = c.read_status
             THEN Applied(c)
             ELSE claims' = claims]_vars

\* C6 (as claimed): a request with target rejected or pending_documents and
\* notes left out, null or empty is refused on the request model, so no call
\* with such a target and without notes is ever in flight; and the write of a
\* call with such a target and notes applies the transition.
C6_NotesRequired ==
    /\ [](\A c \in BagToSet(ucall) :
             c.status \in {"rejected", "pending_documents"} => ~Falsy(c.notes))
    /\ [][\A c \in BagToSet(ucall) :
             (/\ WriteStep(c)
              /\ c.status \in {"rejected", "pending_documents"}
              /\ ~Falsy(c.notes)
              /\ claims[c.claim_id].status = c.read_status)
             => Applied(c)]_vars

(***************************************************************************)
(* The credential claims.                                                   *)
(***************************************************************************)
\* A step in which a login ended on what authenticate_user read.
ReadEnded == acall' = acall /\ aresp' # aresp

\* A step in which a login for the address went on to the password check.
StartedFor(email) ==
    \E c \in BagToSet(acall') :
        c.email = email /\ CopiesIn(c, acall') > CopiesIn(c, acall)

\* A step in which the call c in flight made its second store call and ended.
AuthWriteStep(c) == acall' = acall (-) SetToBag({c})

Registered(email) == WithEmail(email) # {}

\* C7 (as claimed): once an account has had 5 wrong-password outcomes in a
\* row, every login for it that starts afterwards ends with 423 on the lock
\* check, whatever the password and the active flag.
C7_LockedForGood ==
    [][\A i \in 1..Len(users) :
          locked[i] =>
              /\ ~StartedFor(users[i].email)
              /\ (ReadEnded /\ aresp'.email = users[i].email) => aresp'.code = 423]_vars

\* C8: a login for an active account with fewer than 5 failures goes on to
\* the password check; there a wrong password adds exactly one to the counter,
\* leaves last_login alone and ends with the "no match" answer (401, not an
\* error of its own), and the right password sets the counter to 0, stamps
\* last_login with the current time and returns the identity.
C8_CounterAndStamp ==
    [][/\ \A i \in 1..Len(users) :
             (/\ ReadEnded /\ aresp'.email = users[i].email
              /\ i = FindByEmail(users[i].email))
             => ~(users[i].is_active /\ users[i].failed_login_attempts < 5)
       /\ \A c \in BagToSet(acall) :
             AuthWriteStep(c) =>
                 LET i == FindByEmail(c.email)
                 IN  IF users[i].password_hash # hash_password(c.password)
                     THEN /\ users'[i].failed_login_attempts
                                = users[i].failed_login_attempts + 1
                          /\ users'[i].last_login = users[i].last_login
                          /\ aresp'.code = 401
                     ELSE /\ users'[i].failed_login_attempts = 0
                          /\ users'[i].last_login = now
                          /\ aresp' = LoginOutcome(c.email, 200, "tokens")]_vars

\* C8 witness: an account that logged in at time 0 has since had two wrong
\* passwords, the last login ending with 401.
C8_Witness ==
    /\ Len(users) > 0
    /\ users[1].last_login = 0
    /\ users[1].failed_login_attempts = 2
    /\ aresp.code = 401 /\ aresp.email = users[1].email
    /\ now = 1

\* C9: a login for an inactive account with fewer than 5 failures ends with
\* 403 before the password is looked at and changes no stored user; a login
\* for an address that is not registered ends with the "no match" answer and
\* changes no stored user.
C9_InactiveAndUnknown ==
    [][\A e \in {Lower(x) : x \in LoginEmails} :
          LET inactive ==
                  /\ Registered(e)
                  /\ ~users[FindByEmail(e)].is_active
                  /\ users[FindByEmail(e)].failed_login_attempts < 5
          IN  /\ (inactive \/ ~Registered(e)) => ~StartedFor(e)
              /\ (ReadEnded /\ aresp'.email = e) =>
                    /\ inactive => (aresp'.code = 403 /\ users' = users)
                    /\ ~Registered(e) => (aresp'.code = 401 /\ users' = users)]_vars

\* C9 witness: a login for an inactive account that has 2 failures ended
\* with 403.
C9_Witness ==
    /\ Len(users) > 0
    /\ ~users[1].is_active
    /\ users[1].failed_login_attempts = 2
    /\ aresp.code = 403 /\ aresp.email = users[1].email

\* C10: a login with a wrong password for an active account with fewer than
\* 5 failures and a login for an address that is not registered get the same
\* answer: status 401 with the detail "Invalid email or password".
SameAnswer(r) == r.code = 401 /\ r.detail = "Invalid email or password"

C10_NoLeak ==
    [][/\ (ReadEnded /\ ~Registered(aresp'.email)) => SameAnswer(aresp')
       /\ \A c \in BagToSet(acall) :
             (/\ AuthWriteStep(c)
              /\ users[FindByEmail(c.email)].password_hash # hash_password(c.password))
             => SameAnswer(aresp')]_vars

\* C10 witness: after a wrong password on the registered address (one
\* failure counted), a login for the unregistered address has ended with 401.
C10_Witness ==
    /\ Len(users) > 0
    /\ users[1].failed_login_attempts = 1
    /\ streak[1] = 1
    /\ aresp.email = "b@x.io" /\ aresp.code = 401

(***************************************************************************)
(* The permission claims.                                                   *)
(***************************************************************************)
\* C11: can_view_claim answers true exactly for an admin, for a patient whose
\* id is the claim's patient_id, for an insurer whose id is the claim's
\* assigned_insurer and for a hospital whose id is the claim's
\* assigned_hospital; an assignment that is unset or names somebody else gives
\* false.
C11_ViewExactly ==
    pcheck.fn = "can_view_claim" =>
        (pcheck.result <=>
            \/ pcheck.user.role = "admin"
            \/ pcheck.user.role = "patient" /\ pcheck.user.id = pcheck.patient_id
            \/ pcheck.user.role = "insurer" /\ pcheck.user.id = pcheck.assigned_insurer
            \/ pcheck.user.role = "hospital" /\ pcheck.user.id = pcheck.assigned_hospital)

\* C11 witness: insurer u1 asked for a claim that is assigned to insurer u2
\* and was refused.
C11_Witness ==
    /\ pcheck.fn = "can_view_claim"
    /\ pcheck.user = [id |-> "u1", role |-> "insurer"]
    /\ pcheck.assigned_insurer = "u2"
    /\ ~pcheck.result

\* The pairs (role, current status) for which a status update is permitted.
UpdateTable ==
    ({"admin"} \X ClaimStatus)
    \cup ({"hospital"} \X {"submitted", "pending_documents"})
    \cup ({"insurer"} \X {"submitted", "in_review", "under_investigation",
                          "pending_documents"})
    \cup ({"patient"} \X {"pending_documents"})

\* C12: can_update_claim_status answers true exactly for the pairs (role,
\* current status) of the table; the answer is a function of these two alone,
\* whoever the user is.
C12_UpdateExactly ==
    pcheck.fn = "can_update_claim_status" =>
        (pcheck.result <=> <<pcheck.user.role, pcheck.current_status>> \in UpdateTable)

\* C12 witness: a patient was allowed on a claim in pending_documents.
C12_Witness ==
    /\ pcheck.fn = "can_update_claim_status"
    /\ pcheck.user.role = "patient"
    /\ pcheck.current_status = "pending_documents"
    /\ pcheck.result

\* C13 (as claimed): the status request of a patient with target in_review on
\* a claim in pending_documents passes the checks of the route and is handed
\* to the workflow service.
C13_PatientMayUpdate ==
    [][(/\ verdict' # verdict
        /\ verdict'.role = "patient"
        /\ verdict'.to = "in_review"
        /\ HasClaim(verdict'.claim_id)
        /\ claims[verdict'.claim_id].status = "pending_documents")
       => verdict'.code = 0]_vars

(***************************************************************************)
(* The token claims.                                                        *)
(***************************************************************************)
\* A step in which a token operation ended.
TokenStep(op) == tresp' # tresp /\ tresp'.op = op

\* C14: while a token that create_access_token (create_refresh_token)
\* returned has not reached its expiry, verify_token with the type it was
\* made for returns the subject id it was made for, verify_token with the
\* other type is refused with 401, and get_current_user refuses a token made
\* by create_refresh_token with 401; and every call of verify_token on an
\* issued token before its expiry answers so.
C14_RoundTrip ==
    /\ []((tresp.op \in {"create_access_token", "create_refresh_token"}
             /\ clock < tresp.token.payload.exp) =>
            \A strict \in BOOLEAN :
                LET same == verify_token("verify_token", tresp.token,
                                         tresp.expected, strict)
                    other == verify_token("verify_token", tresp.token,
                                          OtherType(tresp.expected), strict)
                IN  /\ same.code = 200 /\ same.sub = tresp.sub
                    /\ other.code = 401
                    /\ tresp.op = "create_refresh_token" =>
                          \A db \in {None, "db"} :
                              get_current_user(db, tresp.token, strict).code = 401)
    /\ [][(/\ TokenStep("verify_token")
            /\ tresp'.token \in issued
            /\ clock < tresp'.token.payload.exp)
           => IF tresp'.expected = tresp'.token.payload.type
              THEN tresp'.code = 200 /\ tresp'.sub = tresp'.token.payload.sub
              ELSE tresp'.code = 401 /\ tresp'.sub = 0]_vars

\* C14 witness: the refresh token made for subject 1 at minute 0, presented
\* at minute 31 as an access token, was refused for its type.
C14_Witness ==
    /\ tresp.op = "verify_token"
    /\ tresp.token \in issued
    /\ tresp.token.payload.type = "refresh" /\ tresp.token.payload.sub = 1
    /\ tresp.expected = "access"
    /\ clock = 31
    /\ tresp.code = 401 /\ tresp.detail = "Invalid token type"

\* C15: verify_token answers 200 or 401 and nothing else; it succeeds for a
\* token with a valid signature (a token that was issued, unchanged) and the
\* expected type before the token's expiry, and never for another signature,
\* another type or after the expiry; the expiry of an access token is 30
\* minutes and that of a refresh token 7 days (10080 minutes) after it was
\* made.
C15_VerifyExactly ==
    [][/\ TokenStep("verify_token") =>
             LET t == tresp'.token
                 ok == t \in issued /\ t.payload.type = tresp'.expected
             IN  /\ tresp'.code \in {200, 401}
                 /\ (ok /\ clock < t.payload.exp) => tresp'.code = 200
                 /\ tresp'.code = 200 => (ok /\ clock <= t.payload.exp)
       /\ TokenStep("create_access_token") =>
             tresp'.token.payload.exp = clock + 30
       /\ TokenStep("create_refresh_token") =>
             tresp'.token.payload.exp = clock + 10080]_vars

\* C15 witness: an access token made at minute 0, unchanged and presented as
\* an access token, was refused at minute 31 as expired.
C15_Witness ==
    /\ tresp.op = "verify_token"
    /\ tresp.token \in issued
    /\ tresp.token.payload.type = "access" /\ tresp.expected = "access"
    /\ tresp.token.payload.exp = 30
    /\ clock = 31
    /\ tresp.code = 401 /\ tresp.detail = "Token has expired"

\* C16 (as claimed): a request with an issued access token before its expiry
\* is answered on the user as stored now: 401 when no user has the subject
\* id, 403 when the user is inactive, and otherwise the stored user.
C16_ResolvesStoredIdentity ==
    [][(/\ TokenStep("get_current_user")
        /\ tresp'.token \in issued
        /\ tresp'.token.payload.type = "access"
        /\ clock < tresp'.token.payload.exp)
       => LET sub == tresp'.token.payload.sub
          IN  IF ~HasUser(sub) THEN tresp'.code = 401
              ELSE IF ~users[sub].is_active THEN tresp'.code = 403
              ELSE /\ tresp'.code = 200
                   /\ tresp'.sub = sub
                   /\ tresp'.role = users[sub].role]_vars

\* C17 (as claimed): a refresh request with an issued refresh token before
\* its expiry, for a stored and active user, succeeds and returns a new access
\* token and a new refresh token for that user.
C17_RefreshReturnsPair ==
    [][(/\ TokenStep("refresh_token")
        /\ tresp'.token \in issued
        /\ tresp'.token.payload.type = "refresh"
        /\ clock < tresp'.token.payload.exp
        /\ HasUser(tresp'.token.payload.sub)
        /\ users[tresp'.token.payload.sub].is_active)
       => /\ tresp'.code = 200
          /\ tresp'.sub = tresp'.token.payload.sub
          /\ \A type \in TokenTypes :
                \E t \in issued' :
                    /\ t.payload.sub = tresp'.sub
                    /\ t.payload.type = type
                    /\ SignatureValid(t)]_vars

(***************************************************************************)
(* The registration and submission claims.                                  *)
(***************************************************************************)
\* C18: no two stored users have the same lowercased address, whatever the
\* interleaving of the registrations; a registration goes on to the insert
\* only when no stored user has its lowercased address, and an insert adds a
\* user only when no stored user has the address.
C18_UniqueEmail ==
    /\ [](\A i, j \in 1..Len(users) :
             Lower(users[i].email) = Lower(users[j].email) => i = j)
    /\ [][/\ \A u \in BagToSet(rcall') :
                CopiesIn(u, rcall') > CopiesIn(u, rcall) =>
                    /\ u.email = Lower(u.email)
                    /\ WithEmail(u.email) = {}
          /\ Len(users') > Len(users) =>
                /\ users' = Append(users, Last(users'))
                /\ WithEmail(Last(users').email) = {}]_vars

\* C18 witness: a user is stored and a registration for the same address,
\* which looked the address up before the user was stored, is at its insert.
C18_Witness ==
    /\ Len(users) = 1
    /\ \E u \in BagToSet(rcall) : u.email = users[1].email

\* The claim_submitted notifications that are related to the claim.
SubmittedNotices(id) ==
    {i \in 1..Len(notifications) :
        /\ notifications[i].notification_type = "claim_submitted"
        /\ notifications[i].related_claim_id = id}

\* C19: a submission with an amount above 0 stores a new claim in submitted
\* whose history is the one entry (submitted, the patient, patient), and ends
\* with exactly one claim_submitted notification to the patient that is
\* related to the claim.
C19_SubmitStores ==
    /\ [](\A id \in 1..Len(claims) :
             /\ claims[id].status_history[1] =
                   ClaimStatusHistory("submitted", claims[id].patient_id, "patient",
                                      "Claim submitted by patient")
             /\ IF \E s \in scall : s.claim_id = id
                THEN SubmittedNotices(id) = {}
                ELSE /\ Cardinality(SubmittedNotices(id)) = 1
                     /\ \A i \in SubmittedNotices(id) :
                           notifications[i].recipient_id = claims[id].patient_id)
    /\ [][Len(claims') > Len(claims) =>
             /\ claims' = Append(claims, Last(claims'))
             /\ Last(claims').status = "submitted"
             /\ Len(Last(claims').status_history) = 1
             /\ \E s \in scall' \ scall :
                   /\ s.amount > 0
                   /\ s.claim_id = Len(claims')
                   /\ s.patient_id = Last(claims').patient_id]_vars

\* C19 witness: the submission of patient u1 has ended with 200, the claim
\* and its notification are stored.
C19_Witness ==
    /\ sresp.code = 200 /\ sresp.claim_id = 1
    /\ Len(claims) = 1 /\ claims[1].patient_id = sresp.patient_id
    /\ Len(notifications) = 1

\* C20: a submission with an amount of 0 or less ends with 422 and stores
\* nothing: no claim, no notification, no call goes on to the insert.
C20_BadAmountStoresNothing ==
    /\ [](/\ \A s \in scall : s.amount > 0
          /\ sresp.code = 200 => sresp.amount > 0)
    /\ [][(sresp' # sresp /\ sresp'.amount <= 0) =>
             /\ sresp'.code = 422
             /\ UNCHANGED <<claims, notifications, scall>>]_vars

\* C20 witness: a submission with amount 0 was refused and the store holds
\* neither a claim nor a notification.
C20_Witness ==
    /\ sresp.code = 422 /\ sresp.amount = 0
    /\ claims = <<>> /\ notifications = <<>>

(***************************************************************************)
(* The claims on the routes and on the notifications.                       *)
(***************************************************************************)
\* C21 (as claimed): a request whose sender has a role that is not in the
\* route's required role set is refused with 403 and leaves the store as it
\* is, for GET /users, GET /analytics/users, POST /claims and PUT
\* /claims/{id}/status.
C21_WrongRoleRefused ==
    [][(/\ access' # access
        /\ access'.sender.role \notin allowed_roles(access'.endpoint))
       => /\ access'.code = 403
          /\ UNCHANGED <<claims, notifications, users, audit_logs>>]_vars

\* C22: mark_notification_as_read returns true only for a stored notification
\* whose recipient is the caller, and then the notification is read; a call
\* for an id that is not stored or for somebody else's notification returns
\* false; and a stored notification changes only when its recipient marks it.
C22_MarkReadOwn ==
    /\ [](nresp.result =>
            /\ nresp.notification_id \in 1..Len(notifications)
            /\ notifications[nresp.notification_id].recipient_id = nresp.user_id
            /\ notifications[nresp.notification_id].is_read)
    /\ [][/\ (/\ nresp' # nresp
              /\ \/ nresp'.notification_id \notin 1..Len(notifications)
                 \/ notifications[nresp'.notification_id].recipient_id # nresp'.user_id)
             => (~nresp'.result /\ notifications' = notifications)
          /\ \A i \in 1..Len(notifications) :
                notifications'[i] # notifications[i] =>
                    /\ nresp' = MarkReadOutcome(i, notifications[i].recipient_id, TRUE)
                    /\ notifications'[i] =
                          [notifications[i] EXCEPT !.is_read = TRUE, !.read_at = now]]_vars

\* C22 witness: u1 has marked the notification of the submission as read, and
\* then u5 asked for the same notification and got false; the notification is
\* as u1's call left it.
C22_Witness ==
    /\ nresp = MarkReadOutcome(1, "u5", FALSE)
    /\ Len(notifications) = 1
    /\ notifications[1].recipient_id = "u1"
    /\ notifications[1].is_read /\ notifications[1].read_at = 0
    /\ now = 1
    /\ faults = {}

\* C23 (as claimed): GET /claims answers a sender who is a patient with
\* claims of that patient only, and a sender who is a hospital, an insurer or
\* an admin with the page asked for of all claims.
C23_ListsOwnOrAll ==
    [][listing' # listing =>
          IF listing'.sender.role = "patient"
          THEN \A k \in 1..Len(listing'.data) :
                  claims[listing'.data[k]].patient_id = listing'.sender.id
          ELSE /\ listing'.code = 200
               /\ listing'.total = Len(claims)
               /\ listing'.data = Paginate(Descending(1..Len(claims)),
                                           listing'.page, listing'.page_size)]_vars

(***************************************************************************)
(* The claims on the stored claim under concurrency and failures.           *)
(***************************************************************************)
\* A history whose consecutive entries are pairs of the transition table and
\* in which no entry follows one with a terminal status.
ValidPath(history) ==
    \A i \in 1..(Len(history) - 1) :
        /\ <<history[i].status, history[i + 1].status>> \in WorkflowTable
        /\ history[i].status \notin Terminal

C25_NotificationFailureHarmless ==
    [][\A c \in BagToSet(ucall) :
          (/\ WriteStep(c)
           /\ "notifications" \in faults
           /\ claims[c.claim_id].status = c.read_status)
          => (Applied(c) /\ resp'.code = 200)]_vars

\* A step in which the submission s, past its insert, ended.
SubmitEnds(s) == s \in scall /\ scall' = scall \ {s}

\* C26 (as claimed): a submission whose claim_submitted notification cannot
\* be stored still ends with success and answers with the stored claim.
C26_SubmitSurvivesNotificationFailure ==
    [][\A s \in scall :
          (SubmitEnds(s) /\ "notifications" \in faults)
          => /\ sresp'.code = 200
             /\ sresp'.claim_id = s.claim_id
             /\ sresp'.claim_id \in 1..Len(claims')]_vars

IsPrefix(seq, longer) ==
    /\ Len(seq) <= Len(longer)
    /\ \A i \in 1..Len(seq) : longer[i] = seq[i]

\* C28: the status history of a claim is append-only and never empty: every
\* step of every operation keeps the stored claims and leaves the history of
\* each as an initial segment of its history afterwards, and a claim is stored
\* with a history of at least one entry.
C28_HistoryAppendOnly ==
    /\ [](\A id \in 1..Len(claims) : claims[id].status_history # <<>>)
    /\ [][/\ Len(claims') >= Len(claims)
          /\ \A id \in 1..Len(claims) :
                IsPrefix(claims[id].status_history, claims'[id].status_history)]_vars

\* C28 witness: a claim with a history of three entries went through the
\* write of a status update, and its history is still those entries.
C28_Witness ==
    /\ Len(claims) > 0
    /\ claims[1].status_history = StoredPath("approved")
    /\ resp = Outcome("approved", "payment_processing", 500)
    /\ ucall = EmptyBag

\* The fields of a stored claim that identify it and its submission.
Identity(claim) ==
    <<claim.claim_number, claim.patient_id, claim.extracted_data, claim.documents,
      claim.assigned_insurer, claim.assigned_hospital>>

\* A step of update_claim_status: a call was refused, went on to its write,
\* or made its write.
UpdateStep == resp' # resp \/ ucall' # ucall

\* C29: no step of a status update, whether the call is refused on its
\* request, on what it read or at its write, changes the id (the position),
\* the claim number, the patient, the extracted data, the documents or the
\* assignments of a stored claim; and no two stored claims have the same
\* claim number.
C29_UpdateKeepsIdentity ==
    /\ [](\A i, j \in 1..Len(claims) :
             i # j => claims[i].claim_number # claims[j].claim_number)
    /\ [][UpdateStep =>
             /\ Len(claims') = Len(claims)
             /\ \A id \in 1..Len(claims) :
                   Identity(claims'[id]) = Identity(claims[id])]_vars

\* C29 witness: claim 1 is stored under CLM-1; a submission that generated
\* CLM-1 again was refused by the unique index, and a status update of claim 1
\* has made its write and ended.
C29_Witness ==
    /\ Len(claims) = 1 /\ claims[1].claim_number = "CLM-1"
    /\ sresp = SubmitOutcome("u1", 100, 500, 0)
    /\ resp = Outcome("submitted", "in_review", 500)
    /\ Identity(claims[1]) =
          <<"CLM-1", "u1", [claim_amount |-> 100], Documents, None, None>>

C33_CounterAtMostFive ==
    \A i \in 1..Len(users) : users[i].failed_login_attempts <= 5

\* A status request c makes its write in this step.
RouteWriteStep(c) == c.stage = "write" /\ route' = route (-) SetToBag({c})

\* C31 (as claimed): a status update that passed every check of the route and
\* of the service is carried out and creates exactly one notification, to the
\* patient who owns the claim, about the claim, whose previous status is the
\* status stored immediately before the step and whose new status is the
\* target.
C31_UpdateNotifiesPatient ==
    [][\A c \in BagToSet(route) :
          RouteWriteStep(c) =>
              notifications' =
                  Append(notifications,
                         Notification(claims[c.claim_id].patient_id, "status_update",
                                      c.claim_id,
                                      [previous_status |-> claims[c.claim_id].status,
                                       new_status |-> c.status]))]_vars

AdminOnly == {"approved", "payment_processing", "rejected", "completed"}

\* Every history entry with status payment_processing or completed was made
\* by an admin, and no request of another role is past the permission check
\* of the route on a claim whose status is in AdminOnly.
AdminOnlyKept ==
    /\ \A id \in 1..Len(claims) :
          \A i \in 1..Len(claims[id].status_history) :
              claims[id].status_history[i].status \in {"payment_processing", "completed"}
                  => claims[id].status_history[i].updated_by_role = "admin"
    /\ \A c \in BagToSet(route) :
          c.user.role # "admin" => claims[c.claim_id].status \notin AdminOnly

RouteFails ==
    /\ verdict'.code >= 400
    /\ verdict' # verdict \/ BagCardinality(route') < BagCardinality(route)

\* C35: a status request that fails (the claim is not found, the permission is
\* refused, the transition is invalid, the notes are missing, or the store
\* refuses the write) has no side effect: the claims with their statuses and
\* histories, the notifications and the audit log are as they were.
C35_FailureLeavesNoTrace ==
    [][RouteFails => UNCHANGED <<claims, notifications, audit_logs>>]_vars

\* C35 witness: an admin asked to move an approved claim to completed and was
\* refused as an invalid transition.
C35_Witness ==
    /\ Len(claims) > 0 /\ claims[1].status = "approved"
    /\ verdict.role = "admin" /\ verdict.claim_id = 1
    /\ verdict.from = "approved" /\ verdict.to = "completed"
    /\ verdict.code = 400
    /\ audit_logs = {} /\ notifications = <<>>

\* The identities of a hospital or an insurer.
StaffViewers ==
    {[id |-> i, role |-> r] : i \in {"u1", "u2", "u3", "u4", "u5"},
                              r \in {"hospital", "insurer"}}

OnlyCounterChanges ==
    /\ Len(users') = Len(users)
    /\ users' # users
    /\ \A i \in 1..Len(users) :
          [users'[i] EXCEPT !.failed_login_attempts = 0] =
              [users[i] EXCEPT !.failed_login_attempts = 0]

\* C37 (as claimed): what get_current_user answers does not depend on the
\* failed-login counter: a step that changes nothing but a counter changes the
\* answer to no token; and a request to a token route with an issued access
\* token before its expiry, of a stored and active account whose counter has
\* reached the lock threshold, is accepted on the stored user.
C37_LockIgnoredByToken ==
    [][/\ OnlyCounterChanges =>
            \A token \in Presented, strict \in BOOLEAN :
                get_current_user(DependencyDb, token, strict)' =
                    get_current_user(DependencyDb, token, strict)
       /\ (/\ TokenStep("get_current_user")
           /\ tresp'.token \in issued
           /\ clock < tresp'.token.payload.exp
           /\ HasUser(tresp'.token.payload.sub)
           /\ users[tresp'.token.payload.sub].is_active
           /\ users[tresp'.token.payload.sub].failed_login_attempts >= LockThreshold)
          => /\ tresp'.code = 200
             /\ tresp'.sub = tresp'.token.payload.sub]_vars

\* The requests of a client accepted in the window of `period` seconds that
\* starts at `from`, both ends included.
AcceptedIn(client_ip, from) ==
    {i \in 1..Len(accepted[client_ip]) :
        from <= accepted[client_ip][i] /\ accepted[client_ip][i] <= from + period}

\* C38: for every client key and every window of `period` seconds, at most
\* `calls` requests of the client are accepted; a refused request is not
\* recorded against the limit; and a request of one client changes nothing of
\* what is recorded for another, whose next answer is what it would have been.
C38_RateLimited ==
    /\ [](\A c \in ClientKeys, from \in 0..MaxSeconds :
            Cardinality(AcceptedIn(c, from)) <= calls)
    /\ [][allowed' # allowed =>
            LET c == allowed'.client_ip
            IN  /\ ~allowed'.result =>
                      /\ accepted' = accepted
                      /\ clients'[c] = popleft_old(clients[c], time - period)
                /\ \A d \in ClientKeys \ {c} :
                      /\ clients'[d] = clients[d]
                      /\ accepted'[d] = accepted[d]
                      /\ at_limit(popleft_old(clients[d], time - period))' =
                             at_limit(popleft_old(clients[d], time - period))]_vars

\* C38 witness: a client was refused at the limit while the other client,
\* which has made requests of its own, is under the limit, and an earlier
\* window of the refused client has passed.
C38_Witness ==
    /\ allowed.client_ip = "10.0.0.1" /\ ~allowed.result
    /\ Len(accepted["10.0.0.1"]) > calls
    /\ Len(accepted["10.0.0.2"]) = 1

=============================================================================
